---------------------------- MODULE Spec2Model ----------------------------
(***************************************************************************)
(* Versioned, type-tagged global identifiers (src/src/lib/global-id.ts,    *)
(* lines 1-210): TypeRegistry, ParserRegistry, Encoder and Decoder.        *)
(*                                                                         *)
(* Strings are sequences of one-character strings, so that splitting,      *)
(* prefixes, the CBOR bytes and the base64 text are computed, not assumed. *)
(* JavaScript values are records [k, s, n]: k the typeof-like kind, s the  *)
(* characters of a string, n the number (or 0/1 for a boolean).            *)
(***************************************************************************)
EXTENDS Integers, Sequences, FiniteSets, TLC

VARIABLES typeMap, prefixMap, parsers, last, issued

vars == <<typeMap, prefixMap, parsers, last, issued>>

(***************************************************************************)
(* Bounds of the model.                                                    *)
(***************************************************************************)
\* longest string payload value handed to encode
MaxValueLen == 1
\* most (key, version) entries the ParserRegistry is filled with
MaxParsers == 2
\* most issued identifiers remembered by the history variable
MaxIssued == 1

(***************************************************************************)
(* Characters.                                                             *)
(***************************************************************************)
\* printable ASCII, code 32 (space) to 126 (~); "grave" stands for code 96
AsciiPrintable ==
  << " ", "!", "\"", "#", "$", "%", "&", "'", "(", ")", "*", "+", ",", "-", ".", "/",
     "0", "1", "2", "3", "4", "5", "6", "7", "8", "9", ":", ";", "<", "=", ">", "?",
     "@", "A", "B", "C", "D", "E", "F", "G", "H", "I", "J", "K", "L", "M", "N", "O",
     "P", "Q", "R", "S", "T", "U", "V", "W", "X", "Y", "Z", "[", "\\", "]", "^", "_",
     "grave", "a", "b", "c", "d", "e", "f", "g", "h", "i", "j", "k", "l", "m", "n", "o",
     "p", "q", "r", "s", "t", "u", "v", "w", "x", "y", "z", "{", "|", "}", "~" >>

Chars == { AsciiPrintable[i] : i \in 1..Len(AsciiPrintable) }

\* the UTF-8 byte of an ASCII character
CharCode == [ c \in Chars |-> 31 + (CHOOSE i \in 1..Len(AsciiPrintable) : AsciiPrintable[i] = c) ]

\* the standard base64 alphabet (RFC 4648), index 0..63 at position 1..64
Base64Alphabet ==
  << "A", "B", "C", "D", "E", "F", "G", "H", "I", "J", "K", "L", "M", "N", "O", "P",
     "Q", "R", "S", "T", "U", "V", "W", "X", "Y", "Z", "a", "b", "c", "d", "e", "f",
     "g", "h", "i", "j", "k", "l", "m", "n", "o", "p", "q", "r", "s", "t", "u", "v",
     "w", "x", "y", "z", "0", "1", "2", "3", "4", "5", "6", "7", "8", "9", "+", "/" >>

(***************************************************************************)
(* JavaScript values.                                                      *)
(***************************************************************************)
Undefined == [k |-> "undefined", s |-> <<>>, n |-> 0]
Null == [k |-> "null", s |-> <<>>, n |-> 0]
Str(chars) == [k |-> "string", s |-> chars, n |-> 0]
Num(i) == [k |-> "number", s |-> <<>>, n |-> i]
Bool(b) == [k |-> "boolean", s |-> <<>>, n |-> IF b THEN 1 ELSE 0]
\* a function object inherited from Object.prototype (such as Object itself)
InheritedFunction == [k |-> "function", s |-> <<>>, n |-> 0]

\* ToBoolean: what `if (x)` and `!x` test
Truthy(v) ==
  CASE v.k = "undefined" -> FALSE
    [] v.k = "null" -> FALSE
    [] v.k = "string" -> Len(v.s) > 0
    [] v.k = "number" -> v.n # 0
    [] v.k = "boolean" -> v.n = 1
    [] OTHER -> TRUE

(***************************************************************************)
(* The strings the calls are made with.                                    *)
(***************************************************************************)
EmptyString == <<>>
Constructor == <<"c", "o", "n", "s", "t", "r", "u", "c", "t", "o", "r">>
\* property names every object literal {} inherits from Object.prototype
ObjectPrototypeKeys == { Constructor }

TypeNames == { EmptyString, <<"A">>, <<"B">>, Constructor }
Prefixes == { EmptyString, <<"p">>, <<"p", "_", "q">>, Constructor }
Versions == { <<"1">>, <<"2">> }
\* keys registerParser and getParser are called with: prefixes and a type name
ParserKeys == { <<"p">>, <<"p", "_", "q">>, Constructor, <<"A">> }

\* the two IParser implementations of the repository
ParserIds == { "StringParser", "JsonParser" }
NoParser == "none"

(***************************************************************************)
(* Property lookup obj[key] on an object created by the literal {}: an own *)
(* property if one was assigned, else the property inherited from          *)
(* Object.prototype, else undefined.                                       *)
(***************************************************************************)
Lookup(obj, key) ==
  IF key \in DOMAIN obj /\ obj[key] # Undefined THEN obj[key]
  ELSE IF key \in ObjectPrototypeKeys THEN InheritedFunction
  ELSE Undefined

\* a property key is converted to a string; only strings name own properties here
IsKey(v) == v.k = "string"

(***************************************************************************)
(* TypeRegistry                                                            *)
(***************************************************************************)
getPrefix(type) == Lookup(typeMap, type)

getType(prefix) == Lookup(prefixMap, prefix)

\* the condition under which registerType throws
registerTypeThrows(type, prefix) ==
  Truthy(Lookup(typeMap, type)) \/ Truthy(Lookup(prefixMap, prefix))

(***************************************************************************)
(* The record of the most recent call and of its outcome.                  *)
(***************************************************************************)
NoId == [type |-> Undefined, version |-> Undefined, value |-> Undefined]

NoCall ==
  [op |-> "none", a1 |-> <<>>, a2 |-> <<>>, parser |-> NoParser,
   id |-> NoId, wire |-> <<>>, ok |-> TRUE, err |-> "", out |-> NoParser]

Call(op, a1, a2, parser, id, wire, ok, err, out) ==
  [op |-> op, a1 |-> a1, a2 |-> a2, parser |-> parser,
   id |-> id, wire |-> wire, ok |-> ok, err |-> err, out |-> out]

\* every call is synchronous: it has returned before the next one is made
Idle == last.op = "none"

\* the caller takes the result of the call that was made
return ==
  /\ ~Idle
  /\ last' = NoCall
  /\ UNCHANGED <<typeMap, prefixMap, parsers, issued>>

\* TypeRegistry.registerType(type, prefix)
registerType(type, prefix) ==
  /\ Idle
  /\ IF registerTypeThrows(type, prefix)
       THEN /\ UNCHANGED <<typeMap, prefixMap>>
            /\ last' = Call("registerType", type, prefix, NoParser, NoId, <<>>,
                            FALSE, "DuplicateRegistration", NoParser)
       ELSE /\ typeMap' = [typeMap EXCEPT ![type] = Str(prefix)]
            /\ prefixMap' = [prefixMap EXCEPT ![prefix] = Str(type)]
            /\ last' = Call("registerType", type, prefix, NoParser, NoId, <<>>,
                            TRUE, "", NoParser)
  /\ UNCHANGED <<parsers, issued>>

(***************************************************************************)
(* ParserRegistry                                                          *)
(***************************************************************************)
\* the (key, version) pairs a parser is stored under
ParserEntries ==
  { kv \in ParserKeys \X Versions : parsers[kv[1]][kv[2]] # NoParser }

\* this.parsers[type] as an own property: a Map is created only to be filled at once
HasOwnParsers(key) ==
  key \in ParserKeys /\ \E v \in Versions : parsers[key][v] # NoParser

\* this.parsers[type]: "map", "inherited" (a function of Object.prototype) or "undefined"
versionedParsers(key) ==
  IF IsKey(key) /\ HasOwnParsers(key.s) THEN "map"
  ELSE IF IsKey(key) /\ key.s \in ObjectPrototypeKeys THEN "inherited"
  ELSE "undefined"

Outcome(ok, err, out) == [ok |-> ok, err |-> err, out |-> out]

\* a getParser without its `if (!versionedParsers)` test: .get is called on undefined
getParserSkipsMapCheck(key, version) ==
  IF versionedParsers(key) # "map" THEN Outcome(FALSE, "TypeError", NoParser)
  ELSE IF version.k = "string" /\ version.s \in Versions
            /\ parsers[key.s][version.s] # NoParser
    THEN Outcome(TRUE, "", parsers[key.s][version.s])
    ELSE Outcome(FALSE, "UnknownVersion", NoParser)

\* ParserRegistry.getParser(type, version); type and version are JavaScript values
getParser(key, version) ==
  LET found == versionedParsers(key) IN
  CASE found = "undefined" -> Outcome(FALSE, "UnknownType", NoParser)
    [] found = "inherited" -> Outcome(FALSE, "TypeError", NoParser)
    [] OTHER ->
         IF version.k = "string" /\ version.s \in Versions
              /\ parsers[key.s][version.s] # NoParser
           THEN Outcome(TRUE, "", parsers[key.s][version.s])
           ELSE Outcome(FALSE, "UnknownVersion", NoParser)

\* a registerParser that stores parsers without asking the TypeRegistry
registerParserErrorWithoutTypeCheck(type) ==
  IF versionedParsers(Str(type)) = "inherited" THEN "TypeError" ELSE ""

\* what registerParser does before it stores anything: "UnknownType", "TypeError" or ""
registerParserError(type) ==
  IF ~Truthy(getType(type)) THEN "UnknownType"
  ELSE IF versionedParsers(Str(type)) = "inherited" THEN "TypeError"
  ELSE ""

\* a registration that keeps the parser already stored and, on a registration for a
\* second time, drops the other versions of the type
setParserIfAbsent(type, version, parser) ==
  IF parsers[type][version] = NoParser
    THEN [parsers EXCEPT ![type][version] = parser]
    ELSE [parsers EXCEPT ![type] = [v \in Versions |-> IF v = version THEN @[v] ELSE NoParser]]

\* this.parsers[type].set(version, parser), the Map made first where there is none
setParser(type, version, parser) == [parsers EXCEPT ![type][version] = parser]

\* ParserRegistry.registerParser(type, version, parser); the call record keeps in
\* out the parser that was stored under (type, version) before
registerParser(type, version, parser) ==
  /\ Idle
  /\ \/ registerParserError(type) # ""
     \/ parsers[type][version] # NoParser
     \/ Cardinality(ParserEntries) < MaxParsers
  /\ IF registerParserError(type) # ""
       THEN /\ UNCHANGED parsers
            /\ last' = Call("registerParser", type, version, parser, NoId, <<>>,
                            FALSE, registerParserError(type), NoParser)
       ELSE /\ parsers' = setParser(type, version, parser)
            /\ last' = Call("registerParser", type, version, parser, NoId, <<>>,
                            TRUE, "", parsers[type][version])
  /\ issued' = IF registerParserError(type) # "" THEN issued
               ELSE { e \in issued : ~(e.key = type /\ e.id.version = Str(version)) }
  /\ UNCHANGED <<typeMap, prefixMap>>

\* a call of getParser from outside the Encoder and Decoder
callGetParser(type, version) ==
  /\ Idle
  /\ LET r == getParser(Str(type), Str(version))
     IN  last' = Call("getParser", type, version, NoParser, NoId, <<>>, r.ok, r.err, r.out)
  /\ UNCHANGED <<typeMap, prefixMap, parsers, issued>>

(***************************************************************************)
(* The parsers: StringParser (global-id.ts) and the JSON parser of the     *)
(* test suite (JSON.stringify / JSON.parse), on scalar values.             *)
(***************************************************************************)
RECURSIVE Digits(_)
\* the decimal digits of a natural number
Digits(i) ==
  IF i < 10 THEN << AsciiPrintable[17 + i] >>
  ELSE Digits(i \div 10) \o << AsciiPrintable[17 + (i % 10)] >>

Quote == "\""

\* JSON.stringify(value) for a scalar; undefined and functions give undefined
JsonStringify(v) ==
  CASE v.k = "string" -> Str(<<Quote>> \o v.s \o <<Quote>>)
    [] v.k = "number" -> Str(Digits(v.n))
    [] v.k = "boolean" -> Str(IF v.n = 1 THEN <<"t", "r", "u", "e">>
                                        ELSE <<"f", "a", "l", "s", "e">>)
    [] v.k = "null" -> Str(<<"n", "u", "l", "l">>)
    [] OTHER -> Undefined

IsDigit(c) == c \in { AsciiPrintable[17 + i] : i \in 0..9 }

RECURSIVE NumberOf(_)
\* the number a sequence of digits denotes
NumberOf(ds) ==
  IF Len(ds) = 0 THEN 0
  ELSE 10 * NumberOf(SubSeq(ds, 1, Len(ds) - 1)) + (CharCode[ds[Len(ds)]] - 48)

\* the string a JavaScript value is converted to when used as text
ToText(v) ==
  CASE v.k = "string" -> v.s
    [] v.k = "number" -> Digits(v.n)
    [] v.k = "boolean" -> IF v.n = 1 THEN <<"t", "r", "u", "e">>
                                     ELSE <<"f", "a", "l", "s", "e">>
    [] v.k = "null" -> <<"n", "u", "l", "l">>
    [] OTHER -> <<"u", "n", "d", "e", "f", "i", "n", "e", "d">>

\* JSON.parse(text) for a scalar document: the value, or a SyntaxError
JsonParse(v) ==
  LET t == ToText(v) IN
  CASE t = <<"n", "u", "l", "l">> -> Outcome(TRUE, "", Null)
    [] t = <<"t", "r", "u", "e">> -> Outcome(TRUE, "", Bool(TRUE))
    [] t = <<"f", "a", "l", "s", "e">> -> Outcome(TRUE, "", Bool(FALSE))
    [] Len(t) >= 1 /\ (\A i \in 1..Len(t) : IsDigit(t[i])) /\ (Len(t) = 1 \/ t[1] # "0") ->
         Outcome(TRUE, "", Num(NumberOf(t)))
    [] Len(t) >= 2 /\ t[1] = Quote /\ t[Len(t)] = Quote
         /\ (\A i \in 2..(Len(t) - 1) : t[i] \notin {Quote, "\\"}) ->
         Outcome(TRUE, "", Str(SubSeq(t, 2, Len(t) - 1)))
    [] OTHER -> Outcome(FALSE, "SyntaxError", Undefined)

\* parser.format(value)
format(parser, v) == IF parser = "StringParser" THEN v ELSE JsonStringify(v)

\* parser.parse(data)
parse(parser, v) == IF parser = "StringParser" THEN Outcome(TRUE, "", v) ELSE JsonParse(v)

(***************************************************************************)
(* cborEncode of the envelope [formattedValue, version] (RFC 8949): an     *)
(* array header, then each item.                                           *)
(***************************************************************************)
RECURSIVE Utf8(_)
Utf8(chars) ==
  IF Len(chars) = 0 THEN <<>> ELSE <<CharCode[Head(chars)]>> \o Utf8(Tail(chars))

\* one data item: text string (major type 3), unsigned integer (0), simple values (7)
cborItem(v) ==
  CASE v.k = "string" ->
         IF Len(v.s) < 24 THEN <<96 + Len(v.s)>> \o Utf8(v.s)
                          ELSE <<120, Len(v.s)>> \o Utf8(v.s)
    [] v.k = "number" -> IF v.n < 24 THEN <<v.n>> ELSE <<24, v.n>>
    [] v.k = "boolean" -> <<244 + v.n>>
    [] v.k = "null" -> <<246>>
    [] OTHER -> <<247>>

cborEncode(formattedValue, version) ==
  <<130>> \o cborItem(formattedValue) \o cborItem(version)

RECURSIVE toBase64(_)
\* buffer.toString('base64'): three bytes to four characters, '=' padded
toBase64(b) ==
  IF Len(b) = 0 THEN <<>>
  ELSE IF Len(b) = 1 THEN
    << Base64Alphabet[(b[1] \div 4) + 1], Base64Alphabet[((b[1] % 4) * 16) + 1], "=", "=" >>
  ELSE IF Len(b) = 2 THEN
    << Base64Alphabet[(b[1] \div 4) + 1],
       Base64Alphabet[((b[1] % 4) * 16 + (b[2] \div 16)) + 1],
       Base64Alphabet[((b[2] % 16) * 4) + 1], "=" >>
  ELSE
    << Base64Alphabet[(b[1] \div 4) + 1],
       Base64Alphabet[((b[1] % 4) * 16 + (b[2] \div 16)) + 1],
       Base64Alphabet[((b[2] % 16) * 4 + (b[3] \div 64)) + 1],
       Base64Alphabet[(b[3] % 64) + 1] >> \o toBase64(SubSeq(b, 4, Len(b)))

\* s.replace(/x/g, y) for single characters
ReplaceAll(s, x, y) == [ i \in 1..Len(s) |-> IF s[i] = x THEN y ELSE s[i] ]

RECURSIVE StripTrailing(_, _)
\* s.replace(/x+$/, '')
StripTrailing(s, x) ==
  IF Len(s) > 0 /\ s[Len(s)] = x THEN StripTrailing(SubSeq(s, 1, Len(s) - 1), x) ELSE s

\* a sanitize that forgets to replace '+'
sanitizeKeepsPlus(base64) == StripTrailing(ReplaceAll(base64, "/", "_"), "=")

\* '+' to '-', '/' to '_', trailing '=' removed
sanitize(base64) ==
  StripTrailing(ReplaceAll(ReplaceAll(base64, "+", "-"), "/", "_"), "=")

(***************************************************************************)
(* Encoder                                                                 *)
(***************************************************************************)
GlobalId(type, version, value) == [type |-> type, version |-> version, value |-> value]

\* the text after the separator in encode's result
encodedPayload(parser, id) ==
  sanitize(toBase64(cborEncode(format(parser, id.value), id.version)))

\* Encoder.encode(id): the string, or the error thrown
encode(id) ==
  LET typePrefix == getPrefix(id.type.s)
      found == getParser(typePrefix, id.version)
  IN  IF ~Truthy(typePrefix) THEN Outcome(FALSE, "UnregisteredType", <<>>)
      ELSE IF ~Truthy(id.value) THEN Outcome(FALSE, "NullValue", <<>>)
      ELSE IF ~found.ok THEN Outcome(FALSE, found.err, <<>>)
      ELSE Outcome(TRUE, "", typePrefix.s \o <<"_">> \o encodedPayload(found.out, id))

(***************************************************************************)
(* Decoder                                                                 *)
(***************************************************************************)
\* input.indexOf(separator), 1-based; 0 when absent
IndexOf(input, separator) ==
  IF \E i \in 1..Len(input) : input[i] = separator
    THEN CHOOSE i \in 1..Len(input) :
           input[i] = separator /\ \A j \in 1..(i - 1) : input[j] # separator
    ELSE 0

\* Decoder.splitByFirstOccurrence: one part when the separator is absent, else two
splitByFirstOccurrence(input, separator) ==
  IF IndexOf(input, separator) = 0 THEN << input >>
  ELSE << SubSeq(input, 1, IndexOf(input, separator) - 1),
          SubSeq(input, IndexOf(input, separator) + 1, Len(input)) >>

RECURSIVE PadTo4(_)
\* while (s.length % 4) s += '='
PadTo4(s) == IF Len(s) % 4 = 0 THEN s ELSE PadTo4(s \o <<"=">>)

\* '-' back to '+', '_' back to '/', then padded
restore(payload) == PadTo4(ReplaceAll(ReplaceAll(payload, "-", "+"), "_", "/"))

\* the 6-bit value of a base64 character ('-' and '_' count as 62 and 63), or 64
unbase64 ==
  [ c \in Chars |->
      IF c = "-" THEN 62
      ELSE IF c = "_" THEN 63
      ELSE IF \E i \in 1..64 : Base64Alphabet[i] = c
        THEN (CHOOSE i \in 1..64 : Base64Alphabet[i] = c) - 1
        ELSE 64 ]

RECURSIVE Sextets(_)
\* the legal characters up to the first '=', as 6-bit values: others are skipped
Sextets(s) ==
  IF Len(s) = 0 \/ Head(s) = "=" THEN <<>>
  ELSE IF unbase64[Head(s)] < 64 THEN <<unbase64[Head(s)]>> \o Sextets(Tail(s))
  ELSE Sextets(Tail(s))

RECURSIVE BytesOf(_)
\* four 6-bit values to three bytes; a last group of two or three gives one or two
BytesOf(x) ==
  IF Len(x) < 2 THEN <<>>
  ELSE IF Len(x) = 2 THEN << x[1] * 4 + (x[2] \div 16) >>
  ELSE IF Len(x) = 3 THEN << x[1] * 4 + (x[2] \div 16), (x[2] % 16) * 16 + (x[3] \div 4) >>
  ELSE << x[1] * 4 + (x[2] \div 16), (x[2] % 16) * 16 + (x[3] \div 4),
          (x[3] % 4) * 64 + x[4] >> \o BytesOf(SubSeq(x, 5, Len(x)))

\* Buffer.from(text, 'base64'): never throws
fromBase64(text) == BytesOf(Sextets(text))

\* the character of a byte, for the printable ASCII the model's strings are made of
IsPrintable(b) == b >= 32 /\ b <= 126

Item(ok, val, next) == [ok |-> ok, val |-> val, next |-> next]

\* the scalar data item starting at position i, and the position after it
cborScalarAt(b, i) ==
  IF i > Len(b) THEN Item(FALSE, Undefined, i)
  ELSE IF b[i] < 24 THEN Item(TRUE, Num(b[i]), i + 1)
  ELSE IF b[i] = 24 /\ i + 1 <= Len(b) THEN Item(TRUE, Num(b[i + 1]), i + 2)
  ELSE IF b[i] >= 96 /\ b[i] < 120 /\ i + (b[i] - 96) <= Len(b)
            /\ \A j \in (i + 1)..(i + (b[i] - 96)) : IsPrintable(b[j])
    THEN Item(TRUE, Str([ j \in 1..(b[i] - 96) |-> AsciiPrintable[b[i + j] - 31] ]),
              i + 1 + (b[i] - 96))
  ELSE IF b[i] = 244 THEN Item(TRUE, Bool(FALSE), i + 1)
  ELSE IF b[i] = 245 THEN Item(TRUE, Bool(TRUE), i + 1)
  ELSE IF b[i] = 246 THEN Item(TRUE, Null, i + 1)
  ELSE IF b[i] = 247 THEN Item(TRUE, Undefined, i + 1)
  ELSE Item(FALSE, Undefined, i)

RECURSIVE cborItemsAt(_, _, _)
\* n scalar items from position i: <<ok, items, next>>
cborItemsAt(b, i, n) ==
  IF n = 0 THEN <<TRUE, <<>>, i>>
  ELSE LET first == cborScalarAt(b, i)
           rest == cborItemsAt(b, first.next, n - 1)
       IN  IF ~first.ok THEN <<FALSE, <<>>, i>>
           ELSE <<rest[1], <<first.val>> \o rest[2], rest[3]>>

Decoded(ok, kind, items) == [ok |-> ok, kind |-> kind, items |-> items]

\* cborDecode(buffer): an array of scalars or a scalar; throws on anything else and
\* on bytes left over
cborDecode(b) ==
  IF Len(b) = 0 THEN Decoded(FALSE, "", <<>>)
  ELSE IF b[1] >= 128 /\ b[1] < 152 THEN
    LET got == cborItemsAt(b, 2, b[1] - 128)
    IN  IF got[1] /\ got[3] = Len(b) + 1 THEN Decoded(TRUE, "array", got[2])
        ELSE Decoded(FALSE, "", <<>>)
  ELSE
    LET one == cborScalarAt(b, 1)
    IN  IF one.ok /\ one.next = Len(b) + 1 THEN Decoded(TRUE, "scalar", <<one.val>>)
        ELSE Decoded(FALSE, "", <<>>)

\* const [data, version] = decoded: the elements of an array, the characters of a
\* string; any other value is not iterable
Destructure(d) ==
  LET items == IF d.kind = "array" THEN d.items
               ELSE [ i \in 1..Len(d.items[1].s) |-> Str(<<d.items[1].s[i]>>) ]
  IN  IF d.kind = "scalar" /\ d.items[1].k # "string"
        THEN Outcome(FALSE, "TypeError", <<>>)
        ELSE Outcome(TRUE, "",
               << IF Len(items) >= 1 THEN items[1] ELSE Undefined,
                  IF Len(items) >= 2 THEN items[2] ELSE Undefined >>)

\* Decoder.decode(encodedId): the GlobalId, or the error thrown
decode(encodedId) ==
  LET parts == splitByFirstOccurrence(encodedId, "_")
      typePrefix == parts[1]
      decoded == cborDecode(fromBase64(restore(parts[2])))
      pair == Destructure(decoded)
      found == getParser(Str(typePrefix), pair.out[2])
      parsed == parse(found.out, pair.out[1])
      parsedType == getType(typePrefix)
  IN  IF Len(parts) = 1 THEN Outcome(FALSE, "TypeError", NoId)
      ELSE IF ~decoded.ok THEN Outcome(FALSE, "CborError", NoId)
      ELSE IF ~pair.ok THEN Outcome(FALSE, "TypeError", NoId)
      ELSE IF ~found.ok THEN Outcome(FALSE, found.err, NoId)
      ELSE IF ~parsed.ok THEN Outcome(FALSE, parsed.err, NoId)
      ELSE IF ~Truthy(parsedType) THEN Outcome(FALSE, "UnregisteredType", NoId)
      ELSE Outcome(TRUE, "", GlobalId(parsedType, pair.out[2], parsed.out))

(***************************************************************************)
(* The calls of encode and decode.                                         *)
(***************************************************************************)
\* characters of the string values handed to encode: '~' and '?' make the base64
\* text hold '+' and '/'
ValueChars == { "~", "?" }

RECURSIVE StringsUpTo(_)
StringsUpTo(n) ==
  IF n = 0 THEN { <<>> }
  ELSE StringsUpTo(n - 1) \cup
       { s \o <<c>> : s \in { t \in StringsUpTo(n - 1) : Len(t) = n - 1 }, c \in ValueChars }

EncodeValues ==
  { Null, Undefined, Num(0), Num(7), Bool(FALSE) } \cup { Str(s) : s \in StringsUpTo(MaxValueLen) }

GlobalIds ==
  { GlobalId(Str(t), Str(v), x) : t \in TypeNames, v \in Versions, x \in EncodeValues }

\* payload values of the strings handed to decode
WireValues == { Num(7), Str(<<"~">>) }

\* prefixes of the strings handed to decode; "z" is never registered
WirePrefixes == Prefixes \cup { <<"z">> }

\* well-formed identifiers: prefix, separator, the payload of an envelope
WellFormed ==
  { pre \o <<"_">> \o sanitize(toBase64(cborEncode(format(parser, x), Str(v)))) :
      pre \in WirePrefixes, parser \in ParserIds, v \in Versions, x \in WireValues }

\* the payload of [ '~', '1' ] with a character outside the base64 alphabet put in
corruptedPayload ==
  LET payload == sanitize(toBase64(cborEncode(Str(<<"~">>), Str(<<"1">>))))
  IN  SubSeq(payload, 1, Len(payload) - 1) \o <<"!">> \o SubSeq(payload, Len(payload), Len(payload))

\* the payload of the 3-element array [ '~', '1', 7 ]
longEnvelopePayload ==
  sanitize(toBase64(<<131>> \o cborItem(Str(<<"~">>)) \o cborItem(Str(<<"1">>)) \o cborItem(Num(7))))

\* the payload of the text '~1', not an array
textPayload == sanitize(toBase64(cborItem(Str(<<"~", "1">>))))

\* malformed identifiers: no separator, an empty payload, a payload of illegal
\* characters, a corrupted payload, payloads that are not a 2-element array
Malformed ==
  { <<"p">>, <<"p", "_">>, <<"p", "_", "!", "!">>,
    <<"p", "_">> \o corruptedPayload,
    <<"p", "_">> \o longEnvelopePayload,
    <<"p", "_">> \o textPayload }

DecodeInputs == WellFormed \cup Malformed

callEncode(id) ==
  /\ Idle
  /\ LET r == encode(id)
     IN  last' = Call("encode", <<>>, <<>>, NoParser, id, r.out, r.ok, r.err, NoParser)
  /\ UNCHANGED <<typeMap, prefixMap, parsers, issued>>

callDecode(encodedId) ==
  /\ Idle
  /\ LET r == decode(encodedId)
     IN  last' = Call("decode", <<>>, <<>>, NoParser, r.out, encodedId, r.ok, r.err, NoParser)
  /\ UNCHANGED <<typeMap, prefixMap, parsers, issued>>

\* encode(id) by a caller that keeps the identifier: the history variable issued
\* remembers it, with the key its parser was found under, until a parser is
\* registered again for that key and version
issue(id) ==
  /\ Idle
  /\ LET r == encode(id)
     IN  /\ last' = Call("encode", <<>>, <<>>, NoParser, id, r.out, r.ok, r.err, NoParser)
         /\ issued' = IF r.ok /\ Cardinality(issued) < MaxIssued
                        THEN issued \cup { [wire |-> r.out, id |-> id, key |-> getPrefix(id.type.s).s] }
                        ELSE issued
  /\ UNCHANGED <<typeMap, prefixMap, parsers>>

Init ==
  /\ typeMap = [t \in TypeNames |-> Undefined]
  /\ prefixMap = [p \in Prefixes |-> Undefined]
  /\ parsers = [k \in ParserKeys |-> [v \in Versions |-> NoParser]]
  /\ last = NoCall
  /\ issued = {}

Next ==
  \/ \E type \in TypeNames, prefix \in Prefixes : registerType(type, prefix)
  \/ \E type \in ParserKeys, version \in Versions, parser \in ParserIds :
        registerParser(type, version, parser)
  \/ \E type \in ParserKeys, version \in Versions : callGetParser(type, version)
  \/ \E id \in GlobalIds : callEncode(id)
  \/ \E encodedId \in DecodeInputs : callDecode(encodedId)
  \/ return

Spec == Init /\ [][Next]_vars

\* registrations going on while issued identifiers are kept
NextIssued ==
  \/ \E type \in TypeNames, prefix \in Prefixes : registerType(type, prefix)
  \/ \E type \in ParserKeys, version \in Versions, parser \in ParserIds :
        registerParser(type, version, parser)
  \/ \E id \in GlobalIds : issue(id)
  \/ return

SpecIssued == Init /\ [][NextIssued]_vars
(***************************************************************************)
(* What the registries hold.                                               *)
(***************************************************************************)
\* typeMap has an own entry for the type: registerType(type, _) succeeded
RegisteredType(type) == type \in DOMAIN typeMap /\ typeMap[type] # Undefined

\* prefixMap has an own entry for the prefix: registerType(_, prefix) succeeded
RegisteredPrefix(prefix) == prefix \in DOMAIN prefixMap /\ prefixMap[prefix] # Undefined

\* a parser is stored under (key, version)
HasParser(key, version) ==
  key \in ParserKeys /\ version \in Versions /\ parsers[key][version] # NoParser

\* the values a parser is written for, on which format and parse are exact inverses
Accepts(parser, v) ==
  /\ IF parser = "StringParser" THEN v.k = "string"
                                ELSE v.k \in {"string", "number", "boolean"}
  /\ parse(parser, format(parser, v)) = Outcome(TRUE, "", v)

(***************************************************************************)
(* C1. Round trip: for a type registered with a prefix, a version with a   *)
(* parser registered under that prefix and a value the parser accepts,     *)
(* encode returns a string and decode of that string returns a GlobalId    *)
(* with the same type, version and value.                                  *)
(***************************************************************************)
C1_RoundTrip ==
  ( /\ last.op = "encode"
    /\ RegisteredType(last.id.type.s)
    /\ HasParser(typeMap[last.id.type.s].s, last.id.version.s)
    /\ Accepts(parsers[typeMap[last.id.type.s].s][last.id.version.s], last.id.value) )
  => ( last.ok /\ decode(last.wire) = Outcome(TRUE, "", last.id) )

(***************************************************************************)
(* C2. Issued identifiers stay valid: once encode(GlobalId(type, version,  *)
(* v)) has returned s, then after any later registerType calls and         *)
(* registerParser calls for other (type, version) pairs, decode(s) returns *)
(* GlobalId(type, version, v).                                             *)
(***************************************************************************)
C2_IssuedStayValid ==
  \A e \in issued : decode(e.wire) = Outcome(TRUE, "", e.id)

(***************************************************************************)
(* C3. registerType(type, prefix) fails with DuplicateRegistration         *)
(* whenever type is already mapped or prefix is already mapped to a        *)
(* different type, and then leaves both mappings as they were.             *)
(***************************************************************************)
C3_DuplicateRejected ==
  [][ ( /\ Idle
        /\ last'.op = "registerType"
        /\ \/ RegisteredType(last'.a1)
           \/ RegisteredPrefix(last'.a2) /\ prefixMap[last'.a2] # Str(last'.a1) )
      => ( /\ ~last'.ok
           /\ last'.err = "DuplicateRegistration"
           /\ typeMap' = typeMap
           /\ prefixMap' = prefixMap ) ]_vars

(***************************************************************************)
(* C4. After any registerType calls the TypeRegistry is a bijection        *)
(* between registered types and registered prefixes: no two types share a  *)
(* prefix, getType(getPrefix(t)) = t for every registered type t and       *)
(* getPrefix(getType(p)) = p for every registered prefix p (so no type     *)
(* was given two prefixes).                                                *)
(***************************************************************************)
C4_Bijection ==
  /\ \A t \in TypeNames : RegisteredType(t) => getType(getPrefix(t).s) = Str(t)
  /\ \A p \in Prefixes : RegisteredPrefix(p) => getPrefix(getType(p).s) = Str(p)
  /\ \A t, u \in TypeNames :
       (RegisteredType(t) /\ RegisteredType(u) /\ getPrefix(t) = getPrefix(u)) => t = u

(***************************************************************************)
(* C5. registerParser(type, version, parser) fails with UnknownType if     *)
(* type is not present in the TypeRegistry, leaving the ParserRegistry     *)
(* unchanged; if it is present the call succeeds and getParser(type,       *)
(* version) afterwards returns the parser.                                 *)
(***************************************************************************)
C5_RegisterParser ==
  [][ \A type \in ParserKeys, version \in Versions, parser \in ParserIds :
        ( /\ Idle
          /\ last'.op = "registerParser"
          /\ last'.a1 = type /\ last'.a2 = version /\ last'.parser = parser )
        => IF RegisteredPrefix(type)
             THEN /\ last'.ok
                  /\ (getParser(Str(type), Str(version)) = Outcome(TRUE, "", parser))'
             ELSE /\ ~last'.ok
                  /\ last'.err = "UnknownType"
                  /\ parsers' = parsers ]_vars

(***************************************************************************)
(* C6. getParser(type, version) returns the parser most recently           *)
(* registered under (type, version); it fails with UnknownType exactly     *)
(* when no parser is registered for type under any version, and with       *)
(* UnknownVersion exactly when some parser is registered for type but      *)
(* none for version.                                                       *)
(***************************************************************************)
C6_GetParser ==
  last.op = "getParser" =>
    /\ last.ok <=> HasParser(last.a1, last.a2)
    /\ last.ok => last.out = parsers[last.a1][last.a2]
    /\ (~last.ok /\ last.err = "UnknownType")
         <=> (\A v \in Versions : ~HasParser(last.a1, v))
    /\ (~last.ok /\ last.err = "UnknownVersion")
         <=> ((\E v \in Versions : HasParser(last.a1, v)) /\ ~HasParser(last.a1, last.a2))

(***************************************************************************)
(* C7. encode returns a string only when id.type has a registered prefix   *)
(* and a parser is registered for that prefix and id.version; it fails     *)
(* with UnregisteredType when the type was never registered and, for a     *)
(* value that is not null or absent, with UnknownType or UnknownVersion    *)
(* when the type is registered but no such parser exists; a failed call    *)
(* produces no string.                                                     *)
(***************************************************************************)
C7_EncodeNeedsRegistration ==
  last.op = "encode" =>
    /\ last.ok => ( /\ RegisteredType(last.id.type.s)
                    /\ HasParser(typeMap[last.id.type.s].s, last.id.version.s) )
    /\ ~RegisteredType(last.id.type.s) => (~last.ok /\ last.err = "UnregisteredType")
    /\ ( /\ RegisteredType(last.id.type.s)
         /\ ~HasParser(typeMap[last.id.type.s].s, last.id.version.s)
         /\ last.id.value \notin {Null, Undefined} )
       => (~last.ok /\ last.err \in {"UnknownType", "UnknownVersion"})
    /\ ~last.ok => last.wire = <<>>

(***************************************************************************)
(* C8. Encoding a GlobalId of a registered type whose value is null or     *)
(* absent fails with NullValue, whatever the version and whether or not a  *)
(* parser is registered; no string is returned.                            *)
(***************************************************************************)
C8_NullRejected ==
  ( /\ last.op = "encode"
    /\ RegisteredType(last.id.type.s)
    /\ last.id.value \in {Null, Undefined} )
  => ( ~last.ok /\ last.err = "NullValue" /\ last.wire = <<>> )

(***************************************************************************)
(* C9. Prefix stability: every string encode(id) returns starts with       *)
(* getPrefix(id.type) followed by '_', and the rest of it holds none of    *)
(* the characters '+', '/' and '='.                                        *)
(***************************************************************************)
C9_PrefixStability ==
  ( last.op = "encode" /\ last.ok )
  => LET prefix == getPrefix(last.id.type.s).s
     IN  /\ Len(last.wire) > Len(prefix)
         /\ SubSeq(last.wire, 1, Len(prefix) + 1) = prefix \o <<"_">>
         /\ \A i \in (Len(prefix) + 2)..Len(last.wire) : last.wire[i] \notin {"+", "/", "="}

\* the base64 text of the payload before it is made URL-safe
RawPayload(id) ==
  toBase64(cborEncode(format(getParser(getPrefix(id.type.s), id.version).out, id.value),
                      id.version))

\* an identifier was returned whose base64 text held a '+' and ended in '='
C9_Witness ==
  /\ last.op = "encode"
  /\ last.ok
  /\ \E i \in 1..Len(RawPayload(last.id)) : RawPayload(last.id)[i] = "+"
  /\ RawPayload(last.id)[Len(RawPayload(last.id))] = "="

(***************************************************************************)
(* C10. Decoding a string whose payload is a well-formed envelope.         *)
(***************************************************************************)
\* the prefix decode reads from the string
WirePrefix(encodedId) == splitByFirstOccurrence(encodedId, "_")[1]

\* what the payload of the string decodes to
Envelope(encodedId) ==
  cborDecode(fromBase64(restore(splitByFirstOccurrence(encodedId, "_")[2])))

\* the payload is a 2-element array [formatted, version]
WellFormedEnvelope(encodedId) ==
  /\ Len(splitByFirstOccurrence(encodedId, "_")) = 2
  /\ Envelope(encodedId).ok
  /\ Envelope(encodedId).kind = "array"
  /\ Len(Envelope(encodedId).items) = 2

\* a parser is registered under the string's prefix for its embedded version
HasEmbeddedParser(encodedId) ==
  /\ Envelope(encodedId).items[2].k = "string"
  /\ HasParser(WirePrefix(encodedId), Envelope(encodedId).items[2].s)

\* some parser is registered under the string's prefix
HasAnyParser(encodedId) == \E v \in Versions : HasParser(WirePrefix(encodedId), v)

\* C10 as claimed: decoding a string with a well-formed envelope fails, returning no
\* GlobalId, with UnregisteredType when its prefix is not registered and with
\* UnknownVersion when no parser is registered under the prefix for its version.
C10_AsClaimed ==
  ( last.op = "decode" /\ WellFormedEnvelope(last.wire) )
  => /\ ~RegisteredPrefix(WirePrefix(last.wire))
          => (~last.ok /\ last.id = NoId /\ last.err = "UnregisteredType")
     /\ (RegisteredPrefix(WirePrefix(last.wire)) /\ ~HasEmbeddedParser(last.wire))
          => (~last.ok /\ last.id = NoId /\ last.err = "UnknownVersion")

\* C10 as amended: decoding a string with a well-formed envelope fails, returning no
\* GlobalId, inside getParser: with UnknownType when no parser at all is registered
\* under its prefix, which is so whenever the prefix is not registered (a TypeError
\* when the prefix names a property inherited from Object.prototype), and with
\* UnknownVersion when parsers are registered under the prefix but none for the
\* embedded version. UnregisteredType is never the error.
C10_DecodeUnknown ==
  ( last.op = "decode" /\ WellFormedEnvelope(last.wire) )
  => /\ (~RegisteredPrefix(WirePrefix(last.wire)) \/ ~HasAnyParser(last.wire))
          => /\ ~last.ok
             /\ last.id = NoId
             /\ last.err = IF WirePrefix(last.wire) \in ObjectPrototypeKeys
                             THEN "TypeError" ELSE "UnknownType"
     /\ (HasAnyParser(last.wire) /\ ~HasEmbeddedParser(last.wire))
          => (~last.ok /\ last.id = NoId /\ last.err = "UnknownVersion")
     /\ last.err # "UnregisteredType"

\* a well-formed string was decoded under a registered prefix that has a parser,
\* but none for the embedded version
C10_Witness ==
  /\ last.op = "decode"
  /\ WellFormedEnvelope(last.wire)
  /\ RegisteredPrefix(WirePrefix(last.wire))
  /\ HasAnyParser(last.wire)
  /\ ~HasEmbeddedParser(last.wire)
  /\ last.err = "UnknownVersion"

(***************************************************************************)
(* C11. Decode fails closed on malformed input.                            *)
(***************************************************************************)
\* the characters of base64url
Base64UrlAlphabet ==
  ({ Base64Alphabet[i] : i \in 1..64 } \ { "+", "/" }) \cup { "-", "_" }

\* the payload segment is unpadded base64url text of some byte sequence
ValidBase64Url(payload) ==
  /\ \A i \in 1..Len(payload) : payload[i] \in Base64UrlAlphabet
  /\ Len(payload) % 4 # 1

\* no separator, or a payload that is not base64url, or bytes that are not a
\* 2-element envelope
MalformedInput(encodedId) ==
  \/ Len(splitByFirstOccurrence(encodedId, "_")) = 1
  \/ ~ValidBase64Url(splitByFirstOccurrence(encodedId, "_")[2])
  \/ ~WellFormedEnvelope(encodedId)

\* the errors the payload pipeline of decode throws: a TypeError of the runtime and
\* the errors of cbor-x; the code has no error of its own for a malformed payload
MalformedPayload == { "TypeError", "CborError" }

\* C11: decode of a string that has no '_', or whose payload is not valid base64url,
\* or whose bytes are not a 2-element envelope, fails with MalformedPayload and
\* returns no GlobalId, whatever is registered.
C11_FailClosed ==
  ( last.op = "decode" /\ MalformedInput(last.wire) )
  => ( ~last.ok /\ last.id = NoId /\ last.err \in MalformedPayload )

(***************************************************************************)
(* C12. No registered prefix contains the separator.                       *)
(***************************************************************************)
\* the string holds the separator character
HasSeparator(str) == \E i \in 1..Len(str) : str[i] = "_"

\* C12: no registered prefix contains '_' (registerType refuses such a prefix), so
\* that every string encode returns splits at its first '_' into exactly the
\* registered prefix of its type and the whole payload.
C12_NoSeparatorInPrefix ==
  /\ \A prefix \in Prefixes : RegisteredPrefix(prefix) => ~HasSeparator(prefix)
  /\ ( last.op = "encode" /\ last.ok )
       => splitByFirstOccurrence(last.wire, "_")
            = << getPrefix(last.id.type.s).s,
                 SubSeq(last.wire, Len(getPrefix(last.id.type.s).s) + 2, Len(last.wire)) >>

(***************************************************************************)
(* C13. Re-registering a parser replaces it and touches nothing else.      *)
(***************************************************************************)
\* C13: a registerParser call for a (type, version) that already has a parser
\* succeeds, getParser(type, version) then returns the new parser, and the parsers
\* stored for every other version of the type and for every other type are unchanged.
C13_ReRegistration ==
  [][ \A type \in ParserKeys, version \in Versions, parser \in ParserIds :
        ( /\ Idle
          /\ HasParser(type, version)
          /\ last'.op = "registerParser"
          /\ last'.a1 = type /\ last'.a2 = version /\ last'.parser = parser )
        => /\ last'.ok
           /\ last'.err = ""
           /\ (getParser(Str(type), Str(version)) = Outcome(TRUE, "", parser))'
           /\ \A k \in ParserKeys, v \in Versions :
                 <<k, v>> # <<type, version>> => parsers'[k][v] = parsers[k][v] ]_vars

\* a parser was replaced by a different one while the other version of the type
\* had a parser too
C13_Witness ==
  /\ last.op = "registerParser"
  /\ last.ok
  /\ last.out # NoParser
  /\ last.out # last.parser
  /\ parsers[last.a1][last.a2] = last.parser
  /\ \E v \in Versions \ {last.a2} : HasParser(last.a1, v)

(***************************************************************************)
(* C14. Parsers exist only under keys the TypeRegistry resolves.           *)
(***************************************************************************)
\* C14: every key under which parsers are stored is a registered prefix that getType
\* resolves to a type, and no decode fails with UnregisteredType: once getParser has
\* succeeded inside decode, the getType lookup that follows succeeds too.
C14_ParserKeysResolvable ==
  /\ \A key \in ParserKeys :
        (\E v \in Versions : HasParser(key, v))
          => (RegisteredPrefix(key) /\ Truthy(getType(key)))
  /\ last.op = "decode" =>
        /\ last.err # "UnregisteredType"
        /\ \A v \in Versions :
              getParser(Str(WirePrefix(last.wire)), Str(v)).ok
                => Truthy(getType(WirePrefix(last.wire)))

\* a decode in which getParser found a parser and getType the type
C14_Witness ==
  /\ last.op = "decode"
  /\ last.ok
  /\ HasAnyParser(last.wire)
  /\ last.id.type = getType(WirePrefix(last.wire))

(***************************************************************************)
(* C15. NullValue is raised for a null or absent value only.               *)
(***************************************************************************)
\* C15: encode fails with NullValue only when the value is null or absent; for a
\* registered type with a parser registered under its prefix for the version, every
\* other value, 0, false and '' included, is formatted by the parser and encoded:
\* encode returns the prefix, '_' and the payload of the formatted value.
C15_NullValueOnlyForNull ==
  last.op = "encode" =>
    /\ last.err = "NullValue" => last.id.value \in {Null, Undefined}
    /\ ( /\ RegisteredType(last.id.type.s)
         /\ HasParser(typeMap[last.id.type.s].s, last.id.version.s)
         /\ last.id.value \notin {Null, Undefined} )
       => /\ last.ok
          /\ last.wire = typeMap[last.id.type.s].s \o <<"_">>
                \o encodedPayload(parsers[typeMap[last.id.type.s].s][last.id.version.s],
                                  last.id)

=============================================================================
